---- MODULE Spec2Model ----
(***************************************************************************)
(* MetaStripper: the batch orchestrator of src/src/main.rs (argument       *)
(* validation, file collection, the rayon parallel map, the statistics     *)
(* fold) and the three format handlers of image.rs, video.rs and pdf.rs,   *)
(* over an explicit filesystem.                                            *)
(*                                                                         *)
(* A path is a record [dir, name]: dir is the parent directory, name the   *)
(* file name as the sequence of its '.'-separated segments, each segment a *)
(* sequence of characters (one-character strings).  The character BadByte  *)
(* stands for a byte sequence that is not valid UTF-8.                     *)
(***************************************************************************)
EXTENDS Integers, Sequences, FiniteSets, TLC

VARIABLES
    args,              \* Args: the parsed command line (main.rs 21-73)
    inputs,            \* args.inputs, each one a regular file
    ffmpegInstalled,   \* `ffmpeg -version` runs and exits with status zero
    ffprobeInstalled,  \* `ffprobe` can be spawned
    fs,                \* the files on disk: path -> content
    dirs,              \* the directories on disk
    mainpc,            \* where main() is
    files,             \* main's `files`: Vec<FileInfo>
    taskpc,            \* where the closure of the parallel map is, per index
    outPath,           \* process_file's output_path, per index
    removed,           \* the handler's removed_metadata, per index
    img,               \* the image handler's decoded `img`, per index
    slots,             \* the closure's returned Result, per index
    order,             \* the indices in the order their closures returned
    results,           \* main's `results`: Vec<(&FileInfo, Result)>
    stats,             \* main's `stats`: ProcessingStats
    log,               \* every filesystem mutation made so far: [task, op, path]
    faulted,           \* the indices whose own I/O the environment failed
    cIn,               \* the classifier's argument (SpecClassify)
    cOut,              \* the classifier's result (SpecClassify)
    rIn,               \* a handler's call: what its environment answers (SpecReport)
    rOut               \* the handler's returned Result (SpecReport)

vars == <<args, inputs, ffmpegInstalled, ffprobeInstalled, fs, dirs, mainpc,
          files, taskpc, outPath, removed, img, slots, order, results, stats,
          log, faulted, cIn, cOut, rIn, rOut>>

mainVars == <<args, inputs, ffmpegInstalled, ffprobeInstalled, fs, dirs,
              mainpc, files, taskpc, outPath, removed, img, slots, order,
              results, stats, log, faulted>>

(***************************************************************************)
(* Bounds.                                                                 *)
(***************************************************************************)
\* The largest number of input files of one run.
MaxInputs == 2

(***************************************************************************)
(* Characters, segments, paths.                                            *)
(***************************************************************************)
UpperChars == <<"A", "B", "C", "D", "E", "F", "G", "H", "I", "J", "K", "L", "M",
                "N", "O", "P", "Q", "R", "S", "T", "U", "V", "W", "X", "Y", "Z">>

LowerChars == <<"a", "b", "c", "d", "e", "f", "g", "h", "i", "j", "k", "l", "m",
                "n", "o", "p", "q", "r", "s", "t", "u", "v", "w", "x", "y", "z">>

\* A byte sequence that is not valid UTF-8 (a file name on Unix may hold one).
BadByte == "<FF>"

\* U+FFFD, what Path::display prints for it.
ReplacementChar == "<FFFD>"

\* str::to_lowercase on one character.
LowerChar(c) ==
    IF \E k \in 1..Len(UpperChars) : UpperChars[k] = c
    THEN LowerChars[CHOOSE k \in 1..Len(UpperChars) : UpperChars[k] = c]
    ELSE c

\* The mutant of to_lowercase: the extension is matched as written.
to_lowercase_Identity(s) == s

\* str::to_lowercase.
to_lowercase(s) == [k \in 1..Len(s) |-> LowerChar(s[k])]

\* OsStr::to_str: None when the string is not valid UTF-8.
IsUtf8(s) == \A k \in 1..Len(s) : s[k] # BadByte

None == "None"

\* Path::extension: the part of the file name after its last '.', None when the
\* name has no '.' or only a leading one.
extension(path) ==
    LET n == Len(path.name) IN
    IF n < 2 \/ (n = 2 /\ path.name[1] = <<>>) THEN None ELSE path.name[n]

\* Path::file_stem as segments: the file name without its extension.
file_stem(path) ==
    IF extension(path) = None THEN path.name
    ELSE SubSeq(path.name, 1, Len(path.name) - 1)

\* Path::to_str on the whole path (directories are valid UTF-8 here).
PathIsUtf8(path) == \A k \in 1..Len(path.name) : IsUtf8(path.name[k])

\* Path::with_extension("tmp.mp4").
with_extension_tmp_mp4(path) ==
    [dir |-> path.dir, name |-> file_stem(path) \o << <<"t", "m", "p">>, <<"m", "p", "4">> >>]

\* Path::display on a segment: invalid bytes print as U+FFFD.
DisplaySeg(s) == [k \in 1..Len(s) |-> IF s[k] = BadByte THEN ReplacementChar ELSE s[k]]

\* format!("{}.bak", path.display()).
BackupPath(path) ==
    [dir |-> path.dir,
     name |-> [k \in 1..Len(path.name) |-> DisplaySeg(path.name[k])] \o << <<"b", "a", "k">> >>]

(***************************************************************************)
(* The type classifier (main.rs 294-305).                                  *)
(***************************************************************************)
ImageExts == { <<"j", "p", "g">>, <<"j", "p", "e", "g">>, <<"p", "n", "g">>,
               <<"g", "i", "f">>, <<"b", "m", "p">>, <<"t", "i", "f", "f">> }

VideoExts == { <<"m", "p", "4">>, <<"m", "o", "v">>, <<"a", "v", "i">>, <<"m", "k", "v">> }

PdfExts == { <<"p", "d", "f">> }

determine_file_type(path) ==
    LET ext == extension(path) IN
    IF ext # None /\ IsUtf8(ext)
    THEN LET e == to_lowercase(ext) IN
         CASE e = <<"j", "p", "g">> \/ e = <<"j", "p", "e", "g">> \/ e = <<"p", "n", "g">>
              \/ e = <<"g", "i", "f">> \/ e = <<"b", "m", "p">> \/ e = <<"t", "i", "f", "f">>
                -> "Image"
           [] e = <<"m", "p", "4">> \/ e = <<"m", "o", "v">> \/ e = <<"a", "v", "i">>
              \/ e = <<"m", "k", "v">>
                -> "Video"
           [] e = <<"p", "d", "f">> -> "PDF"
           [] OTHER -> "Unknown"
    ELSE "Unknown"

(***************************************************************************)
(* The environment: the files on disk and the inputs of a run.             *)
(***************************************************************************)
MkPath(dir, stem, ext) == [dir |-> dir, name |-> <<stem, ext>>]

P_jpg == MkPath("d1", <<"a">>, <<"j", "p", "g">>)
P_JPG == MkPath("d1", <<"b">>, <<"J", "P", "G">>)
P_png == MkPath("d1", <<"c">>, <<"p", "n", "g">>)
P_mp4 == MkPath("d1", <<"a">>, <<"m", "p", "4">>)
P_mov == MkPath("d1", <<"a">>, <<"m", "o", "v">>)
P_bad == MkPath("d1", <<BadByte>>, <<"m", "p", "4">>)
P_pdf == MkPath("d1", <<"a">>, <<"p", "d", "f">>)
P_txt == MkPath("d1", <<"a">>, <<"t", "x", "t">>)

\* The regular files a run may name as inputs.
Candidates == {P_jpg, P_JPG, P_png, P_mp4, P_mov, P_bad, P_pdf, P_txt}

\* The candidates whose bytes no codec or demuxer can parse.
CorruptFiles == {P_png}

\* File contents: the original bytes of a file, the metadata-free re-encoding or
\* remux of them, or an incomplete (truncated or partly written) file.
Orig(p) == [kind |-> "orig", of |-> p]
Stripped(p) == [kind |-> "stripped", of |-> p]
Partial(p) == [kind |-> "partial", of |-> p]

InitFs == [p \in Candidates |-> Orig(p)]
InitDirs == {"d1"}

Write(f, p, c) == [q \in DOMAIN f \cup {p} |-> IF q = p THEN c ELSE f[q]]
Remove(f, p) == [q \in DOMAIN f \ {p} |-> f[q]]

\* A complete file whose bytes are of the given category and parse.
Parses(c, type) ==
    /\ c.kind # "partial"
    /\ c.of \notin CorruptFiles
    /\ determine_file_type(c.of) = type

\* The settings of --only-images, --only-videos, --only-pdfs of the runs.
FilterSettings == { <<FALSE, FALSE, FALSE>>, <<TRUE, FALSE, FALSE>>, <<FALSE, TRUE, FALSE>>,
                    <<FALSE, FALSE, TRUE>>, <<TRUE, TRUE, FALSE>> }

ArgsSet ==
    { [overwrite |-> w, output_dir |-> o, dry_run |-> d, backup |-> b, quiet |-> q,
       only_images |-> f[1], only_videos |-> f[2], only_pdfs |-> f[3]] :
        w \in BOOLEAN, o \in {None, "d1", "out"}, d \in BOOLEAN, b \in BOOLEAN,
        q \in BOOLEAN, f \in FilterSettings }

\* Sequences of pairwise distinct candidates, one to MaxInputs long.
InputSeqs ==
    UNION { { s \in [1..n -> Candidates] : \A j, k \in 1..n : j # k => s[j] # s[k] } :
            n \in 1..MaxInputs }

Ok(items) == [ok |-> TRUE, items |-> items, err |-> ""]
Err(msg) == [ok |-> FALSE, items |-> <<>>, err |-> msg]

EmptyStats ==
    [files_processed |-> 0, files_skipped |-> 0, files_failed |-> 0,
     metadata_items_removed |-> 0, by_type |-> <<>>]

IdlePath == P_txt

\* No handler call is being looked at.
IdleCall == [handler |-> None]

\* The call has not returned.
NoResult == [returned |-> FALSE]

Init ==
    /\ args \in ArgsSet
    /\ inputs \in InputSeqs
    /\ ffmpegInstalled \in BOOLEAN
    /\ ffprobeInstalled \in BOOLEAN
    /\ fs = InitFs
    /\ dirs = InitDirs
    /\ mainpc = "start"
    /\ files = <<>>
    /\ taskpc = <<>>
    /\ outPath = <<>>
    /\ removed = <<>>
    /\ img = <<>>
    /\ slots = <<>>
    /\ order = <<>>
    /\ results = <<>>
    /\ stats = EmptyStats
    /\ log = {}
    /\ faulted = {}
    /\ cIn = IdlePath
    /\ cOut = None
    /\ rIn = IdleCall
    /\ rOut = NoResult

(***************************************************************************)
(* main(): validation and file collection (main.rs 98-175).                *)
(***************************************************************************)
constVars == <<args, inputs, ffmpegInstalled, ffprobeInstalled, cIn, cOut, rIn, rOut>>
taskVars == <<taskpc, outPath, removed, img, slots, order, faulted>>

Event(i, op, p) == [task |-> i, op |-> op, path |-> p]

\* main.rs 112: how many of the three filters are set.
file_filters(a) ==
    Cardinality({ k \in 1..3 : <<a.only_images, a.only_videos, a.only_pdfs>>[k] })

\* main.rs 118-119: the output directory is given, missing, and this is no dry run.
MustCreateOutputDir(a, d) ==
    a.output_dir # None /\ a.output_dir \notin d /\ ~a.dry_run

should_process_file_type(file_type, a) ==
    IF a.only_images THEN file_type = "Image"
    ELSE IF a.only_videos THEN file_type = "Video"
    ELSE IF a.only_pdfs THEN file_type = "PDF"
    ELSE file_type # "Unknown"

\* main.rs 126-161 for inputs that are regular files.
CollectedFiles(ins, a) ==
    SelectSeq([k \in 1..Len(ins) |->
                  [path |-> ins[k], file_type |-> determine_file_type(ins[k])]],
              LAMBDA f : should_process_file_type(f.file_type, a))

\* main.rs 106-123: bail on contradictory filters, then create the output directory.
ValidateArgs ==
    /\ mainpc = "start"
    /\ IF file_filters(args) > 1
       THEN /\ mainpc' = "fatal"
            /\ UNCHANGED <<dirs, log>>
       ELSE IF MustCreateOutputDir(args, dirs)
       THEN \E created \in BOOLEAN :
              IF created
              THEN /\ dirs' = dirs \cup {args.output_dir}
                   /\ log' = log \cup {Event(0, "mkdir", [dir |-> args.output_dir, name |-> <<>>])}
                   /\ mainpc' = "collect"
              ELSE /\ mainpc' = "fatal"
                   /\ UNCHANGED <<dirs, log>>
       ELSE /\ mainpc' = "collect"
            /\ UNCHANGED <<dirs, log>>
    /\ UNCHANGED <<constVars, taskVars, fs, files, results, stats>>

\* main.rs 126-175: collect and classify the files, bail when there is none, and
\* in a dry run that is not quiet print the list and return.
CollectFiles ==
    /\ mainpc = "collect"
    /\ LET fl == CollectedFiles(inputs, args) IN
       /\ files' = fl
       /\ IF fl = <<>> THEN mainpc' = "fatal"
          ELSE IF args.dry_run /\ ~args.quiet THEN mainpc' = "dry_listed"
          ELSE mainpc' = "parallel"
       /\ taskpc' = [i \in 1..Len(fl) |-> "idle"]
    /\ UNCHANGED <<constVars, outPath, removed, img, slots, order, faulted, fs, dirs,
                   results, stats, log>>

(***************************************************************************)
(* The closure of the parallel map and process_file (main.rs 194-212,      *)
(* 307-344).                                                               *)
(***************************************************************************)
\* The closure of index i returns r.
Return(i, r) ==
    /\ slots' = [j \in DOMAIN slots \cup {i} |-> IF j = i THEN r ELSE slots[j]]
    /\ order' = Append(order, i)
    /\ taskpc' = [taskpc EXCEPT ![i] = "done"]

\* The mutant of the backup guard: a backup is copied in a dry run too.
ShouldBackup_InDryRun(a) == a.backup

\* main.rs 197.
ShouldBackup(a) == a.backup /\ ~a.dry_run

\* main.rs 308-317: output_path.
OutputPath(file, a) ==
    IF a.overwrite THEN file.path
    ELSE [dir |-> IF a.output_dir # None THEN a.output_dir ELSE file.path.dir,
          name |-> file.path.name]

DryRunItems == <<"Dry run - no metadata removed">>
UnsupportedItems == <<"Unsupported file type - no metadata removed">>

\* main.rs 320.
SkipsProcessing(a) == a.dry_run

\* main.rs 196-204 and 308-332: the closure starts: the backup copy (a failure
\* is only logged), then process_file up to the call of the handler.
StartTask(i) ==
    /\ mainpc = "parallel"
    /\ taskpc[i] = "idle"
    /\ LET file == files[i]
           bak == BackupPath(file.path)
       IN
       /\ IF ShouldBackup(args)
          THEN \E copied \in BOOLEAN :
                 IF copied /\ file.path \in DOMAIN fs
                 THEN /\ fs' = Write(fs, bak, fs[file.path])
                      /\ log' = log \cup {Event(i, "backup", bak)}
                 ELSE UNCHANGED <<fs, log>>
          ELSE UNCHANGED <<fs, log>>
       /\ outPath' = [j \in DOMAIN outPath \cup {i} |->
                         IF j = i THEN OutputPath(file, args) ELSE outPath[j]]
       /\ IF SkipsProcessing(args)
          THEN Return(i, Ok(DryRunItems))
          ELSE IF file.file_type \notin {"Image", "Video", "PDF"}
          THEN Return(i, Ok(UnsupportedItems))
          ELSE /\ UNCHANGED <<slots, order>>
               /\ taskpc' = [taskpc EXCEPT ![i] =
                     CASE file.file_type = "Image" -> "img_open"
                       [] file.file_type = "Video" -> "vid_check"
                       [] file.file_type = "PDF" -> "pdf_extract"]
    /\ UNCHANGED <<constVars, removed, img, faulted, dirs, mainpc, files, results, stats>>

(***************************************************************************)
(* The image handler (image.rs 8-41).                                      *)
(***************************************************************************)
\* What the EXIF reader finds in a decodable image: whether the container has
\* a parseable tag block, the tags of the primary image, and whether the
\* latitude and the longitude have the shape of three rationals with a
\* non-empty reference.  A re-encoded image has no tag block; the original
\* a.jpg has a camera make; any other image has a block with an orientation
\* only.
ExifCase(c) ==
    IF c.kind = "stripped"
    THEN [readable |-> FALSE, fields |-> {}, latShape |-> FALSE, lonShape |-> FALSE]
    ELSE IF c.of = P_jpg
    THEN [readable |-> TRUE, fields |-> {"Make"}, latShape |-> FALSE, lonShape |-> FALSE]
    ELSE [readable |-> TRUE, fields |-> {"Orientation"}, latShape |-> FALSE,
          lonShape |-> FALSE]

\* field.display_value().to_string() of the tags the report prints.
ExifValue ==
    [Make |-> "Canon", Model |-> "EOS 80D", Software |-> "GIMP",
     DateTime |-> "2024-01-02 03:04:05", DateTimeOriginal |-> "2024-01-01 10:00:00",
     ExposureTime |-> "1/250", FNumber |-> "2.8", ISOSpeed |-> "100"]

\* image.rs 144-146 with the push that follows each call: one item per tag of
\* `list` that the block has.
get_exif_string(exif, list) ==
    LET present == SelectSeq(list, LAMBDA t : t[1] \in exif.fields) IN
    [n \in 1..Len(present) |-> present[n][2] \o ": " \o ExifValue[present[n][1]]]

\* image.rs 51-70.
CameraAndDateTags ==
    << <<"Make", "Camera Make">>, <<"Model", "Camera Model">>, <<"Software", "Software">>,
       <<"DateTime", "Date/Time">>, <<"DateTimeOriginal", "Original Date/Time">> >>

\* image.rs 125-135.
ExposureTags ==
    << <<"ExposureTime", "Exposure Time">>, <<"FNumber", "Aperture">>, <<"ISOSpeed", "ISO">> >>

\* image.rs 73-122.
GpsItems(exif) ==
    LET has_gps == "GPSLatitude" \in exif.fields \/ "GPSLongitude" \in exif.fields
        lat == {"GPSLatitude", "GPSLatitudeRef"} \subseteq exif.fields /\ exif.latShape
        lon == {"GPSLongitude", "GPSLongitudeRef"} \subseteq exif.fields /\ exif.lonShape
    IN
    IF ~has_gps THEN <<>>
    ELSE IF lat \/ lon
    THEN <<"GPS Location: " \o (IF lat THEN "48.000000 51.000000' 30.000000\" N " ELSE "")
               \o (IF lon THEN "2.000000 17.000000' 40.000000\" E" ELSE "")>>
    ELSE <<"GPS Data: Present but could not be parsed">>

NoExifValues == "EXIF metadata was present but no readable values were found"

\* image.rs 43-142.
extract_exif_metadata(exif) ==
    IF ~exif.readable THEN Err("exif")
    ELSE LET metadata == get_exif_string(exif, CameraAndDateTags) \o GpsItems(exif)
                         \o get_exif_string(exif, ExposureTags)
         IN Ok(IF metadata = <<>> THEN <<NoExifValues>> ELSE metadata)

ImageFallbackItems ==
    <<"EXIF metadata (if present)", "GPS data (if present)", "Camera info (if present)">>

\* The mutant of the fallback: the report is whatever the extraction gave.
ImageReport_NoFallback(exif) == extract_exif_metadata(exif).items

\* image.rs 14-24: removed_metadata.
ImageReport(exif) ==
    LET r == extract_exif_metadata(exif) IN
    IF r.ok THEN r.items ELSE ImageFallbackItems

\* image.rs 27-34: the extension as written selects the output format.
OutputFormat(path) ==
    LET ext == extension(path) IN
    IF ext = None \/ ~IsUtf8(ext) THEN None
    ELSE CASE ext = <<"j", "p", "g">> \/ ext = <<"j", "p", "e", "g">> -> "Jpeg"
           [] ext = <<"p", "n", "g">> -> "Png"
           [] ext = <<"g", "i", "f">> -> "Gif"
           [] ext = <<"b", "m", "p">> -> "Bmp"
           [] ext = <<"t", "i", "f", "f">> -> "Tiff"
           [] OTHER -> None

\* image.rs 10-34: decode the input, read its tags, select the output format.
ImgOpen(i) ==
    /\ mainpc = "parallel"
    /\ taskpc[i] = "img_open"
    /\ LET in == files[i].path IN
       IF in \notin DOMAIN fs \/ ~Parses(fs[in], "Image")
       THEN /\ Return(i, Err("Failed to open image"))
            /\ UNCHANGED <<removed, img>>
       ELSE IF OutputFormat(in) = None
       THEN /\ Return(i, Err("Unsupported image format"))
            /\ UNCHANGED <<removed, img>>
       ELSE /\ removed' = [j \in DOMAIN removed \cup {i} |->
                            IF j = i THEN ImageReport(ExifCase(fs[in])) ELSE removed[j]]
            /\ img' = [j \in DOMAIN img \cup {i} |-> IF j = i THEN fs[in].of ELSE img[j]]
            /\ taskpc' = [taskpc EXCEPT ![i] = "img_create"]
            /\ UNCHANGED <<slots, order>>
    /\ UNCHANGED <<constVars, outPath, faulted, fs, dirs, mainpc, files, results, stats, log>>

\* image.rs 37, save_with_format: File::create makes or truncates the output.
ImgCreate(i) ==
    /\ mainpc = "parallel"
    /\ taskpc[i] = "img_create"
    /\ fs' = Write(fs, outPath[i], Partial(img[i]))
    /\ log' = log \cup {Event(i, "create", outPath[i])}
    /\ taskpc' = [taskpc EXCEPT ![i] = "img_write"]
    /\ UNCHANGED <<constVars, outPath, removed, img, slots, order, faulted, dirs, mainpc,
                   files, results, stats>>

\* image.rs 37-40, save_with_format: the encoder writes the pixels to the open
\* file; a failed write (disk full, I/O error) leaves what was written.
ImgWrite(i) ==
    /\ mainpc = "parallel"
    /\ taskpc[i] = "img_write"
    /\ \E written \in BOOLEAN :
         IF written
         THEN /\ fs' = Write(fs, outPath[i], Stripped(img[i]))
              /\ log' = log \cup {Event(i, "write", outPath[i])}
              /\ Return(i, Ok(removed[i]))
              /\ UNCHANGED faulted
         ELSE /\ Return(i, Err("Failed to save image"))
              /\ faulted' = faulted \cup {i}
              /\ UNCHANGED <<fs, log>>
    /\ UNCHANGED <<constVars, outPath, removed, img, dirs, mainpc, files, results, stats>>

\* image.rs 8-41 as a function of what the environment answers: whether the
\* input decodes, what the EXIF reader finds, whether the save succeeds.
strip_image_metadata(call) ==
    IF ~call.decodes THEN Err("Failed to open image")
    ELSE IF OutputFormat(call.path) = None THEN Err("Unsupported image format")
    ELSE IF ~call.saved THEN Err("Failed to save image")
    ELSE Ok(ImageReport(call.exif))

(***************************************************************************)
(* The PDF handler (pdf.rs 6-29).                                          *)
(***************************************************************************)
\* The content of a file, decoded by String::from_utf8_lossy, is a sequence of
\* tokens: a key name ("/Title", ...), one of the characters "(", ")", " ", the
\* two-character escape "\\n" (a backslash and an n), or a run of other
\* characters.  A key name begins with '/'.
\* pdf.rs 46-53: the key names and their display names, in the order of the calls.
PdfKeys ==
    << <<"/Title", "Title">>, <<"/Author", "Author">>, <<"/Subject", "Subject">>,
       <<"/Keywords", "Keywords">>, <<"/Creator", "Creator">>, <<"/Producer", "Producer">>,
       <<"/CreationDate", "Creation Date">>, <<"/ModDate", "Modification Date">> >>

\* The token begins with '/'.
IsSlash(t) == \E n \in 1..Len(PdfKeys) : PdfKeys[n][1] = t

\* The bytes of a file: an incomplete file has none; an original or copied PDF
\* has an author.
PdfCase(c) ==
    IF c.kind = "partial" THEN <<>> ELSE <<"/Author", "(", "Jane Doe", ")">>

\* str::find: the index of the first occurrence, 0 when there is none.
find(content, field_name) ==
    IF \E k \in 1..Len(content) : content[k] = field_name
    THEN CHOOSE k \in 1..Len(content) :
            /\ content[k] = field_name
            /\ \A j \in 1..(k - 1) : content[j] # field_name
    ELSE 0

RECURSIVE SkipWhitespace(_)
\* pdf.rs 70: skip_while(|c| c.is_whitespace()).
SkipWhitespace(chars) ==
    IF chars # <<>> /\ Head(chars) = " " THEN SkipWhitespace(Tail(chars)) ELSE chars

RECURSIVE ParenValue(_, _, _)
\* pdf.rs 75-86: the loop of the parenthesis case.
ParenValue(chars, depth, value) ==
    IF chars = <<>> THEN value
    ELSE LET c == Head(chars) IN
         IF c = "(" THEN ParenValue(Tail(chars), depth + 1, Append(value, c))
         ELSE IF c = ")"
         THEN IF depth - 1 = 0 THEN value
              ELSE ParenValue(Tail(chars), depth - 1, Append(value, c))
         ELSE ParenValue(Tail(chars), depth, Append(value, c))

RECURSIVE NameValue(_, _)
\* pdf.rs 94-99: the loop of the other case.
NameValue(chars, value) ==
    IF chars = <<>> \/ IsSlash(Head(chars)) THEN value
    ELSE NameValue(Tail(chars), Append(value, Head(chars)))

RECURSIVE TrimStart(_)
TrimStart(value) ==
    IF value # <<>> /\ Head(value) = " " THEN TrimStart(Tail(value)) ELSE value

RECURSIVE TrimEnd(_)
TrimEnd(value) ==
    IF value # <<>> /\ value[Len(value)] = " "
    THEN TrimEnd(SubSeq(value, 1, Len(value) - 1)) ELSE value

\* pdf.rs 104: str::trim.
trim(value) == TrimEnd(TrimStart(value))

\* The line feed character.
LineFeed == "<LF>"

\* pdf.rs 108-111: the replace calls; of the four escapes the contents here
\* hold "\\n" only.
replace(value) == [k \in 1..Len(value) |-> IF value[k] = "\\n" THEN LineFeed ELSE value[k]]

RECURSIVE Text(_)
\* The tokens as one string.
Text(value) == IF value = <<>> THEN "" ELSE Head(value) \o Text(Tail(value))

\* pdf.rs 58-117.
extract_metadata_field(content, field_name, metadata, display_name) ==
    LET pos == find(content, field_name) IN
    IF pos = 0 \/ ~(pos < Len(content)) THEN metadata
    ELSE LET chars == SkipWhitespace(SubSeq(content, pos + 1, Len(content)))
             value ==
                 IF chars = <<>> THEN <<>>
                 ELSE IF Head(chars) = "(" THEN ParenValue(Tail(chars), 1, <<>>)
                 ELSE IF IsSlash(Head(chars)) THEN <<>>
                 ELSE NameValue(Tail(chars), <<Head(chars)>>)
         IN IF trim(value) = <<>> THEN metadata
            ELSE Append(metadata, display_name \o ": " \o Text(replace(trim(value))))

RECURSIVE ExtractFields(_, _, _)
\* pdf.rs 46-53: the calls of extract_metadata_field, one per key of `keys`.
ExtractFields(content, keys, metadata) ==
    IF keys = <<>> THEN metadata
    ELSE ExtractFields(content, Tail(keys),
                       extract_metadata_field(content, Head(keys)[1], metadata,
                                              Head(keys)[2]))

\* pdf.rs 31-56, for a file that can be read.
extract_pdf_metadata_simple(content) == ExtractFields(content, PdfKeys, <<>>)

PdfFallbackItems ==
    <<"Author (if present)", "Creator (if present)", "Producer (if present)",
      "CreationDate (if present)", "ModDate (if present)", "Title (if present)",
      "Subject (if present)", "Keywords (if present)">>

\* The mutant of the fallback: the placeholders follow the items found.
PdfReport_Mixed(content) == extract_pdf_metadata_simple(content) \o PdfFallbackItems

\* pdf.rs 9-21: removed_metadata.
PdfReport(content) ==
    LET m == extract_pdf_metadata_simple(content) IN
    IF m = <<>> THEN PdfFallbackItems ELSE m

\* pdf.rs 9-21: read the input and scan it.
PdfExtract(i) ==
    /\ mainpc = "parallel"
    /\ taskpc[i] = "pdf_extract"
    /\ LET in == files[i].path IN
       IF in \notin DOMAIN fs
       THEN /\ Return(i, Err("No such file or directory"))
            /\ UNCHANGED removed
       ELSE /\ removed' = [j \in DOMAIN removed \cup {i} |->
                            IF j = i THEN PdfReport(PdfCase(fs[in])) ELSE removed[j]]
            /\ taskpc' = [taskpc EXCEPT ![i] = "pdf_copy"]
            /\ UNCHANGED <<slots, order>>
    /\ UNCHANGED <<constVars, outPath, img, faulted, fs, dirs, mainpc, files, results,
                   stats, log>>

\* pdf.rs 24, std::fs::copy: the source is opened for reading, then the target
\* is opened with create and truncate.  When both are the same file, that
\* truncates the source.
PdfCopyOpen(i) ==
    /\ mainpc = "parallel"
    /\ taskpc[i] = "pdf_copy"
    /\ LET in == files[i].path IN
       IF in \notin DOMAIN fs
       THEN /\ Return(i, Err("Failed to copy PDF file"))
            /\ UNCHANGED <<fs, log>>
       ELSE /\ fs' = Write(fs, outPath[i], Partial(fs[in].of))
            /\ log' = log \cup {Event(i, "create", outPath[i])}
            /\ taskpc' = [taskpc EXCEPT ![i] = "pdf_data"]
            /\ UNCHANGED <<slots, order>>
    /\ UNCHANGED <<constVars, outPath, removed, img, faulted, dirs, mainpc, files, results,
                   stats>>

\* pdf.rs 24-28, std::fs::copy: the bytes the source holds now are copied to
\* the target; a failed write leaves what was written.
PdfCopyData(i) ==
    /\ mainpc = "parallel"
    /\ taskpc[i] = "pdf_data"
    /\ LET in == files[i].path IN
       \E written \in BOOLEAN :
         IF written /\ in \in DOMAIN fs
         THEN /\ fs' = Write(fs, outPath[i], fs[in])
              /\ log' = log \cup {Event(i, "write", outPath[i])}
              /\ Return(i, Ok(removed[i]))
              /\ UNCHANGED faulted
         ELSE /\ Return(i, Err("Failed to copy PDF file"))
              /\ faulted' = faulted \cup {i}
              /\ UNCHANGED <<fs, log>>
    /\ UNCHANGED <<constVars, outPath, removed, img, dirs, mainpc, files, results, stats>>

\* pdf.rs 6-29 as a function of what the environment answers: whether the
\* input can be read, its content, whether the copy succeeds.
strip_pdf_metadata(call) ==
    IF ~call.readable THEN Err("No such file or directory")
    ELSE IF ~call.copied THEN Err("Failed to copy PDF file")
    ELSE Ok(PdfReport(call.content))

(***************************************************************************)
(* The video handler (video.rs 6-53).                                      *)
(***************************************************************************)
ToolUnavailable == "ffmpeg is not installed. Please install ffmpeg to process video files."

\* A JSON object is a function from the keys it has to their values; this is
\* the object without keys.
EmptyObject == [k \in {} |-> ""]

\* The object `obj` cut down to the keys `ks`.
Restrict(obj, ks) == [k \in ks |-> obj[k]]

\* What running ffprobe on the input gives: whether it could be spawned, its
\* exit status, whether its output parses as JSON, and the parsed value.  A
\* missing or unparsable file makes ffprobe exit with a non-zero status; the
\* original a.mp4 has a title tag; any other video has a report without format
\* and streams.
ProbeCase(f, in, installed) ==
    IF in \notin DOMAIN f \/ ~Parses(f[in], "Video")
    THEN [spawned |-> installed, exit0 |-> FALSE, parsed |-> FALSE, json |-> EmptyObject]
    ELSE IF f[in].of = P_mp4 /\ f[in].kind = "orig"
    THEN [spawned |-> installed, exit0 |-> TRUE, parsed |-> TRUE,
          json |-> [format |-> [tags |-> [title |-> "Test Video"]]]]
    ELSE [spawned |-> installed, exit0 |-> TRUE, parsed |-> TRUE, json |-> EmptyObject]

\* video.rs 180-186.
process_tag(tags, key, display_name, metadata) ==
    IF key \in DOMAIN tags /\ tags[key] # ""
    THEN Append(metadata, display_name \o ": " \o tags[key])
    ELSE metadata

RECURSIVE ProcessTags(_, _, _)
\* A run of process_tag calls, one per <<key, display name>> of `list`.
ProcessTags(tags, list, metadata) ==
    IF list = <<>> THEN metadata
    ELSE ProcessTags(tags, Tail(list),
                     process_tag(tags, Head(list)[1], Head(list)[2], metadata))

\* video.rs 80-91.
FormatTags ==
    << <<"title", "Title">>, <<"artist", "Artist">>, <<"album", "Album">>,
       <<"date", "Date">>, <<"creation_time", "Creation Time">>, <<"encoder", "Encoder">>,
       <<"handler_name", "Handler">>, <<"make", "Device Make">>, <<"model", "Device Model">>,
       <<"location", "Location">>, <<"location-eng", "Location">>,
       <<"com.apple.quicktime.location.ISO6709", "GPS Location">> >>

\* video.rs 143-145 and 163-165.
VideoStreamTags ==
    << <<"creation_time", "Video Creation Time">>, <<"language", "Video Language">>,
       <<"handler_name", "Video Handler">> >>
AudioStreamTags ==
    << <<"creation_time", "Audio Creation Time">>, <<"language", "Audio Language">>,
       <<"handler_name", "Audio Handler">> >>

\* The tag keys outside the standard ones that the reports here use, in the
\* order serde_json's map iterates them (sorted).
OtherKeys == <<"comment", "major_brand">>

\* video.rs 94-107: the other tags, verbatim, an empty value included.
OtherTagItems(tags) ==
    LET present == SelectSeq(OtherKeys, LAMBDA k : k \in DOMAIN tags) IN
    [n \in 1..Len(present) |-> present[n] \o ": " \o tags[present[n]]]

\* video.rs 77-118: the items of the "format" object.
FormatItems(json) ==
    IF "format" \notin DOMAIN json THEN <<>>
    ELSE LET format == json["format"] IN
         (IF "tags" \in DOMAIN format
          THEN ProcessTags(format["tags"], FormatTags, <<>>) \o OtherTagItems(format["tags"])
          ELSE <<>>)
         \o (IF "format_name" \in DOMAIN format
             THEN <<"Format: " \o format["format_name"]>> ELSE <<>>)
         \o (IF "duration" \in DOMAIN format
             THEN <<"Duration: " \o format["duration"] \o " seconds">> ELSE <<>>)

\* video.rs 123-168: the body of the loop over the streams, for one stream.
StreamItems(stream) ==
    IF "codec_type" \notin DOMAIN stream THEN <<>>
    ELSE IF stream["codec_type"] = "video"
    THEN (IF "codec_name" \in DOMAIN stream
          THEN <<"Video Codec: " \o stream["codec_name"]>> ELSE <<>>)
         \o (IF "width" \in DOMAIN stream /\ "height" \in DOMAIN stream
             THEN <<"Resolution: " \o ToString(stream["width"]) \o "x"
                        \o ToString(stream["height"])>>
             ELSE <<>>)
         \o (IF "r_frame_rate" \in DOMAIN stream
             THEN <<"Frame Rate: " \o stream["r_frame_rate"]>> ELSE <<>>)
         \o (IF "tags" \in DOMAIN stream
             THEN ProcessTags(stream["tags"], VideoStreamTags, <<>>) ELSE <<>>)
    ELSE IF stream["codec_type"] = "audio"
    THEN (IF "codec_name" \in DOMAIN stream
          THEN <<"Audio Codec: " \o stream["codec_name"]>> ELSE <<>>)
         \o (IF "sample_rate" \in DOMAIN stream
             THEN <<"Audio Sample Rate: " \o stream["sample_rate"] \o " Hz">> ELSE <<>>)
         \o (IF "channels" \in DOMAIN stream
             THEN <<"Audio Channels: " \o ToString(stream["channels"])>> ELSE <<>>)
         \o (IF "tags" \in DOMAIN stream
             THEN ProcessTags(stream["tags"], AudioStreamTags, <<>>) ELSE <<>>)
    ELSE <<>>

RECURSIVE AllStreamItems(_)
\* video.rs 121-170: the loop over json["streams"].
AllStreamItems(streams) ==
    IF streams = <<>> THEN <<>>
    ELSE StreamItems(Head(streams)) \o AllStreamItems(Tail(streams))

NoVideoMetadata == "No readable metadata found in the video file"

\* video.rs 55-178.
extract_video_metadata(probe) ==
    IF ~probe.spawned THEN Err("Failed to execute ffprobe command")
    ELSE IF ~probe.exit0 THEN Err("ffprobe failed to extract metadata")
    ELSE LET metadata ==
                 IF ~probe.parsed THEN <<>>
                 ELSE FormatItems(probe.json)
                      \o (IF "streams" \in DOMAIN probe.json
                          THEN AllStreamItems(probe.json["streams"]) ELSE <<>>)
         IN Ok(IF metadata = <<>> THEN <<NoVideoMetadata>> ELSE metadata)

VideoFallbackItems ==
    <<"Creation time (if present)", "Encoder information (if present)",
      "Device information (if present)", "GPS data (if present)", "All metadata headers">>

\* video.rs 13-25: removed_metadata.
VideoReport(probe) ==
    LET r == extract_video_metadata(probe) IN
    IF r.ok THEN r.items ELSE VideoFallbackItems

\* The mutant of the availability check: the handler goes on without ffmpeg.
is_ffmpeg_installed_Unchecked(installed) == TRUE

\* video.rs 188-194.
is_ffmpeg_installed(installed) == installed

\* video.rs 8-10: the availability check.
VidCheck(i) ==
    /\ mainpc = "parallel"
    /\ taskpc[i] = "vid_check"
    /\ IF ~is_ffmpeg_installed(ffmpegInstalled)
       THEN Return(i, Err(ToolUnavailable))
       ELSE /\ taskpc' = [taskpc EXCEPT ![i] = "vid_probe"]
            /\ UNCHANGED <<slots, order>>
    /\ UNCHANGED <<constVars, outPath, removed, img, faulted, fs, dirs, mainpc, files,
                   results, stats, log>>

\* video.rs 13-25 and 56-65: the probe.  input_path.to_str().unwrap() panics on
\* a path that is not valid UTF-8, before ffprobe is spawned.
VidProbe(i) ==
    /\ mainpc = "parallel"
    /\ taskpc[i] = "vid_probe"
    /\ IF ~PathIsUtf8(files[i].path)
       THEN /\ taskpc' = [taskpc EXCEPT ![i] = "panicked"]
            /\ UNCHANGED removed
       ELSE /\ removed' = [j \in DOMAIN removed \cup {i} |->
                            IF j = i
                            THEN VideoReport(ProbeCase(fs, files[i].path, ffprobeInstalled))
                            ELSE removed[j]]
            /\ taskpc' = [taskpc EXCEPT ![i] = "vid_ffmpeg"]
    /\ UNCHANGED <<constVars, outPath, img, slots, order, faulted, fs, dirs, mainpc, files,
                   results, stats, log>>

\* video.rs 28: temp_path.
TempPath(out) == with_extension_tmp_mp4(out)

\* video.rs 31-46: ffmpeg remuxes the input into the temporary file.  It exits
\* with a non-zero status when it cannot read or parse the input or when a
\* write fails, and then it may leave the temporary file it began.
VidFfmpeg(i) ==
    /\ mainpc = "parallel"
    /\ taskpc[i] = "vid_ffmpeg"
    /\ LET in == files[i].path
           tmp == TempPath(outPath[i])
       IN
       IF ~ffmpegInstalled
       THEN /\ Return(i, Err("Failed to execute ffmpeg command"))
            /\ UNCHANGED <<fs, log, faulted>>
       ELSE \E exit0 \in BOOLEAN, begun \in BOOLEAN :
              IF exit0 /\ in \in DOMAIN fs /\ Parses(fs[in], "Video")
              THEN /\ begun
                   /\ fs' = Write(fs, tmp, Stripped(fs[in].of))
                   /\ log' = log \cup {Event(i, "write", tmp)}
                   /\ taskpc' = [taskpc EXCEPT ![i] = "vid_rename"]
                   /\ UNCHANGED <<slots, order, faulted>>
              ELSE /\ IF begun
                      THEN /\ fs' = Write(fs, tmp, Partial(in))
                           /\ log' = log \cup {Event(i, "write", tmp)}
                      ELSE UNCHANGED <<fs, log>>
                   /\ Return(i, Err("ffmpeg failed"))
                   /\ faulted' = IF in \in DOMAIN fs /\ Parses(fs[in], "Video")
                                 THEN faulted \cup {i} ELSE faulted
    /\ UNCHANGED <<constVars, outPath, removed, img, dirs, mainpc, files, results, stats>>

\* std::fs::rename on files.
Renamed(f, from, to) == Write(Remove(f, from), to, f[from])

\* video.rs 49-52: the temporary file is renamed to the output path.
VidRename(i) ==
    /\ mainpc = "parallel"
    /\ taskpc[i] = "vid_rename"
    /\ LET tmp == TempPath(outPath[i]) IN
       IF tmp \notin DOMAIN fs
       THEN /\ Return(i, Err("Failed to move temporary file"))
            /\ UNCHANGED <<fs, log>>
       ELSE /\ fs' = Renamed(fs, tmp, outPath[i])
            /\ log' = log \cup {Event(i, "rename", outPath[i])}
            /\ Return(i, Ok(removed[i]))
    /\ UNCHANGED <<constVars, outPath, removed, img, faulted, dirs, mainpc, files, results,
                   stats>>

\* video.rs 6-53 as a function of what the environment answers: whether ffmpeg
\* is installed, the probe, whether ffmpeg exits with status zero, whether the
\* rename succeeds.  The path is valid UTF-8.
strip_video_metadata(call) ==
    IF ~is_ffmpeg_installed(call.ffmpeg) THEN Err(ToolUnavailable)
    ELSE IF ~call.transcoded THEN Err("ffmpeg failed")
    ELSE IF ~call.renamed THEN Err("Failed to move temporary file")
    ELSE Ok(VideoReport(call.probe))

(***************************************************************************)
(* main(): the end of the parallel map and the statistics (main.rs         *)
(* 194-236).                                                               *)
(***************************************************************************)
\* The mutant of collect: the items are kept in the order the closures returned.
Collected_ByCompletion(fl, sl, ord) ==
    [k \in 1..Len(ord) |-> [file |-> fl[ord[k]], result |-> sl[ord[k]]]]

\* main.rs 194-212: collect() of an indexed parallel iterator puts the item of
\* index i at position i, whatever the order the closures returned in.
Collected(fl, sl, ord) ==
    [k \in 1..Len(fl) |-> [file |-> fl[k], result |-> sl[k]]]

\* main.rs 212: every closure has returned; collect() returns the vector.
CollectResults ==
    /\ mainpc = "parallel"
    /\ \A i \in DOMAIN taskpc : taskpc[i] = "done"
    /\ results' = Collected(files, slots, order)
    /\ mainpc' = "fold"
    /\ UNCHANGED <<constVars, taskVars, fs, dirs, files, stats, log>>

\* main.rs 194-212: a closure panicked; rayon lets the other closures finish and
\* resumes the panic in main, which unwinds: no result is kept.
PropagatePanic ==
    /\ mainpc = "parallel"
    /\ \A i \in DOMAIN taskpc : taskpc[i] \in {"done", "panicked"}
    /\ \E i \in DOMAIN taskpc : taskpc[i] = "panicked"
    /\ mainpc' = "panicked"
    /\ UNCHANGED <<constVars, taskVars, fs, dirs, files, results, stats, log>>

\* main.rs 220-225: the key of by_type.
TypeKey(file_type) ==
    CASE file_type = "Image" -> "Images"
      [] file_type = "Video" -> "Videos"
      [] file_type = "PDF" -> "PDFs"
      [] OTHER -> "Unknown"

\* *map.entry(key).or_insert(0) += 1.
Bump(m, key) ==
    [x \in DOMAIN m \cup {key} |->
        IF x = key THEN (IF key \in DOMAIN m THEN m[key] ELSE 0) + 1 ELSE m[x]]

\* The mutant of the loop body: a failed file counts as processed too.
StatsStep_CountsFailures(st, entry) ==
    [files_processed |-> st.files_processed + 1,
     files_skipped |-> st.files_skipped,
     files_failed |-> st.files_failed + (IF entry.result.ok THEN 0 ELSE 1),
     metadata_items_removed |-> st.metadata_items_removed + Len(entry.result.items),
     by_type |-> Bump(st.by_type, TypeKey(entry.file.file_type))]

\* main.rs 219-236: the body of the statistics loop.
StatsStep(st, entry) ==
    [files_processed |-> st.files_processed + (IF entry.result.ok THEN 1 ELSE 0),
     files_skipped |-> st.files_skipped,
     files_failed |-> st.files_failed + (IF entry.result.ok THEN 0 ELSE 1),
     metadata_items_removed |->
        st.metadata_items_removed + (IF entry.result.ok THEN Len(entry.result.items) ELSE 0),
     by_type |-> Bump(st.by_type, TypeKey(entry.file.file_type))]

RECURSIVE FoldStats(_, _)
\* main.rs 191 and 219-236: the statistics loop over results, from `st`.
FoldStats(st, rs) ==
    IF rs = <<>> THEN st ELSE FoldStats(StatsStep(st, Head(rs)), Tail(rs))

\* main.rs 218-236: collect statistics.
CollectStatistics ==
    /\ mainpc = "fold"
    /\ stats' = FoldStats(EmptyStats, results)
    /\ mainpc' = "done"
    /\ UNCHANGED <<constVars, taskVars, fs, dirs, files, results, log>>

Next ==
    \/ ValidateArgs
    \/ CollectFiles
    \/ \E i \in DOMAIN taskpc : StartTask(i)
    \/ \E i \in DOMAIN taskpc : ImgOpen(i)
    \/ \E i \in DOMAIN taskpc : ImgCreate(i)
    \/ \E i \in DOMAIN taskpc : ImgWrite(i)
    \/ \E i \in DOMAIN taskpc : PdfExtract(i)
    \/ \E i \in DOMAIN taskpc : PdfCopyOpen(i)
    \/ \E i \in DOMAIN taskpc : PdfCopyData(i)
    \/ \E i \in DOMAIN taskpc : VidCheck(i)
    \/ \E i \in DOMAIN taskpc : VidProbe(i)
    \/ \E i \in DOMAIN taskpc : VidFfmpeg(i)
    \/ \E i \in DOMAIN taskpc : VidRename(i)
    \/ CollectResults
    \/ PropagatePanic
    \/ CollectStatistics

Spec == Init /\ [][Next]_vars

(***************************************************************************)
(* The classifier alone, over a wider set of paths.                        *)
(***************************************************************************)
ClassifyStems == { <<"a">>, <<>>, <<BadByte>> }

ClassifyExts ==
    { <<"j", "p", "g">>, <<"J", "P", "G">>, <<"J", "p", "g">>, <<"j", "p", "e", "g">>,
      <<"J", "P", "E", "G">>, <<"p", "n", "g">>, <<"P", "n", "G">>, <<"g", "i", "f">>,
      <<"G", "I", "F">>, <<"b", "m", "p">>, <<"B", "M", "P">>, <<"t", "i", "f", "f">>,
      <<"T", "I", "F", "F">>, <<"t", "i", "f">>, <<"m", "p", "4">>, <<"M", "P", "4">>,
      <<"m", "o", "v">>, <<"M", "o", "V">>, <<"a", "v", "i">>, <<"A", "V", "I">>,
      <<"m", "k", "v">>, <<"M", "K", "V">>, <<"p", "d", "f">>, <<"P", "D", "F">>,
      <<"P", "d", "f">>, <<"t", "x", "t">>, <<"b", "a", "k">>, <<"j", "p">>,
      <<"m", "p", "3">>, <<"p", "d", "f", "x">>, <<>>, <<BadByte>>,
      <<"j", "p", "g", BadByte>> }

\* Names with an extension, without any, and with two dots.
ClassifyPaths ==
    { MkPath("d1", st, e) : st \in ClassifyStems, e \in ClassifyExts }
    \cup { [dir |-> "d1", name |-> <<st>>] : st \in ClassifyStems \ {<<>>} }
    \cup { [dir |-> "d1", name |-> <<st, <<"t", "a", "r">>, e>>] :
             st \in ClassifyStems, e \in ClassifyExts }

InitClassify ==
    /\ args = [overwrite |-> FALSE, output_dir |-> None, dry_run |-> FALSE,
               backup |-> FALSE, quiet |-> FALSE, only_images |-> FALSE,
               only_videos |-> FALSE, only_pdfs |-> FALSE]
    /\ inputs = <<IdlePath>>
    /\ ffmpegInstalled = FALSE
    /\ ffprobeInstalled = FALSE
    /\ fs = InitFs
    /\ dirs = InitDirs
    /\ mainpc = "start"
    /\ files = <<>>
    /\ taskpc = <<>>
    /\ outPath = <<>>
    /\ removed = <<>>
    /\ img = <<>>
    /\ slots = <<>>
    /\ order = <<>>
    /\ results = <<>>
    /\ stats = EmptyStats
    /\ log = {}
    /\ faulted = {}
    /\ cIn \in ClassifyPaths
    /\ cOut = None
    /\ rIn = IdleCall
    /\ rOut = NoResult

\* main.rs 141 and 150: a call of determine_file_type.
Classify ==
    /\ cOut = None
    /\ cOut' = determine_file_type(cIn)
    /\ UNCHANGED <<cIn, mainVars, rIn, rOut>>

\* The next path to classify.
NextPath ==
    /\ cOut # None
    /\ cIn' \in ClassifyPaths
    /\ cOut' = None
    /\ UNCHANGED <<mainVars, rIn, rOut>>

NextClassify == Classify \/ NextPath

SpecClassify == InitClassify /\ [][NextClassify]_vars

(***************************************************************************)
(* The handlers alone, as functions of what their environment answers,     *)
(* over a wider set of probe reports.                                      *)
(***************************************************************************)
\* The largest number of streams of a probe report.
MaxStreams == 2

\* The largest number of tokens of a file's content.
MaxContent == 4

TagsChoices ==
    { EmptyObject, [title |-> "Test Video"], [encoder |-> ""], [comment |-> ""],
      [title |-> "Test Video", comment |-> "shot on a phone", major_brand |-> "isom"] }

FormatChoices ==
    { Restrict([tags |-> t, format_name |-> "mov,mp4", duration |-> "1.000000"], ks) :
        t \in TagsChoices, ks \in SUBSET {"tags", "format_name", "duration"} }

CodecNames == {"h264", "hevc", "aac"}

StreamChoices ==
    { [codec_type |-> "video", codec_name |-> "h264", width |-> 1280, height |-> 720,
       r_frame_rate |-> "30/1", tags |-> [language |-> "eng"]],
      [codec_type |-> "video", codec_name |-> "hevc"],
      [codec_type |-> "audio", codec_name |-> "aac", sample_rate |-> "48000", channels |-> 2],
      [codec_type |-> "audio", tags |-> [handler_name |-> ""]],
      [codec_type |-> "subtitle", codec_name |-> "mov_text"] }

StreamSeqs == UNION { [1..n -> StreamChoices] : n \in 0..MaxStreams }

JsonChoices ==
    { Restrict([format |-> f, streams |-> st], ks) :
        f \in FormatChoices, st \in StreamSeqs, ks \in SUBSET {"format", "streams"} }

\* ffprobe cannot be spawned; it exits with a non-zero status; it prints what
\* is no JSON; it prints a report.
ProbeChoices ==
    { [spawned |-> FALSE, exit0 |-> FALSE, parsed |-> FALSE, json |-> EmptyObject],
      [spawned |-> TRUE, exit0 |-> FALSE, parsed |-> FALSE, json |-> EmptyObject],
      [spawned |-> TRUE, exit0 |-> TRUE, parsed |-> FALSE, json |-> EmptyObject] }
    \cup { [spawned |-> TRUE, exit0 |-> TRUE, parsed |-> TRUE, json |-> j] : j \in JsonChoices }

\* ffmpeg is missing; it runs and fails; it succeeds and the rename fails; both
\* succeed.
VideoCalls ==
    { [handler |-> "video", ffmpeg |-> e[1], probe |-> p, transcoded |-> e[2],
       renamed |-> e[3]] :
        e \in { <<FALSE, FALSE, FALSE>>, <<TRUE, FALSE, FALSE>>, <<TRUE, TRUE, FALSE>>,
                <<TRUE, TRUE, TRUE>> },
        p \in ProbeChoices }

\* The tags a tag block may hold here.
ExifTagChoices ==
    {"Make", "DateTimeOriginal", "GPSLatitude", "GPSLatitudeRef", "GPSLongitude",
     "GPSLongitudeRef", "ISOSpeed", "Orientation"}

ExifChoices ==
    { [readable |-> FALSE, fields |-> {}, latShape |-> FALSE, lonShape |-> FALSE] }
    \cup { [readable |-> TRUE, fields |-> fl, latShape |-> la, lonShape |-> lo] :
             fl \in SUBSET ExifTagChoices, la \in BOOLEAN, lo \in BOOLEAN }

ImagePaths ==
    { P_jpg, P_JPG, P_png, MkPath("d1", <<"a">>, <<"t", "i", "f", "f">>),
      MkPath("d1", <<"a">>, <<"g", "i", "f">>) }

ImageCalls ==
    { [handler |-> "image", decodes |-> d, path |-> p, exif |-> e, saved |-> sv] :
        d \in BOOLEAN, p \in ImagePaths, e \in ExifChoices, sv \in BOOLEAN }

PdfTokens == {"/Title", "/Author", "(", ")", " ", "x", "\\n"}

Contents == UNION { [1..n -> PdfTokens] : n \in 0..MaxContent }

PdfCalls ==
    { [handler |-> "pdf", readable |-> FALSE, content |-> <<>>, copied |-> FALSE] }
    \cup { [handler |-> "pdf", readable |-> TRUE, content |-> c, copied |-> cp] :
             c \in Contents, cp \in BOOLEAN }

Calls == VideoCalls \cup ImageCalls \cup PdfCalls

InitReport ==
    /\ args = [overwrite |-> FALSE, output_dir |-> None, dry_run |-> FALSE,
               backup |-> FALSE, quiet |-> FALSE, only_images |-> FALSE,
               only_videos |-> FALSE, only_pdfs |-> FALSE]
    /\ inputs = <<IdlePath>>
    /\ ffmpegInstalled = FALSE
    /\ ffprobeInstalled = FALSE
    /\ fs = InitFs
    /\ dirs = InitDirs
    /\ mainpc = "start"
    /\ files = <<>>
    /\ taskpc = <<>>
    /\ outPath = <<>>
    /\ removed = <<>>
    /\ img = <<>>
    /\ slots = <<>>
    /\ order = <<>>
    /\ results = <<>>
    /\ stats = EmptyStats
    /\ log = {}
    /\ faulted = {}
    /\ cIn = IdlePath
    /\ cOut = None
    /\ rIn \in Calls
    /\ rOut = NoResult

\* main.rs 326: a call of strip_video_metadata.
CallVideo ==
    /\ rIn.handler = "video"
    /\ rOut = NoResult
    /\ rOut' = strip_video_metadata(rIn)
    /\ UNCHANGED <<rIn, mainVars, cIn, cOut>>

\* main.rs 325: a call of strip_image_metadata.
CallImage ==
    /\ rIn.handler = "image"
    /\ rOut = NoResult
    /\ rOut' = strip_image_metadata(rIn)
    /\ UNCHANGED <<rIn, mainVars, cIn, cOut>>

\* main.rs 327: a call of strip_pdf_metadata.
CallPdf ==
    /\ rIn.handler = "pdf"
    /\ rOut = NoResult
    /\ rOut' = strip_pdf_metadata(rIn)
    /\ UNCHANGED <<rIn, mainVars, cIn, cOut>>

NextReport == CallVideo \/ CallImage \/ CallPdf

SpecReport == InitReport /\ [][NextReport]_vars

(***************************************************************************)
(* Properties.                                                             *)
(***************************************************************************)
Tasks == DOMAIN taskpc

\* The extension e is x written in any letter case.
SameLetters(e, x) ==
    /\ Len(e) = Len(x)
    /\ \A k \in 1..Len(x) :
         \/ e[k] = x[k]
         \/ \E j \in 1..Len(LowerChars) : LowerChars[j] = x[k] /\ UpperChars[j] = e[k]

\* What one file's closure returns when nothing else touches its paths and the
\* environment fails none of its reads and writes: Ok or not.
SucceedsAlone(file) ==
    \/ args.dry_run
    \/ /\ file.file_type = "Image"
       /\ file.path \notin CorruptFiles
       /\ OutputFormat(file.path) # None
    \/ /\ file.file_type = "Video"
       /\ ffmpegInstalled
       /\ PathIsUtf8(file.path)
    \/ file.file_type = "PDF"

\* C1 (failure isolation, as claimed): when the run has ended, every file whose
\* own handling succeeds has an Ok outcome and every file whose own handling
\* fails has an Err outcome, whatever its siblings did and in whatever order.
C1_FailureIsolation ==
    mainpc = "done" =>
        \A i \in 1..Len(files) :
            i \notin faulted => (results[i].result.ok <=> SucceedsAlone(files[i]))

\* C2 (index correspondence): once the parallel map has returned, results has
\* one entry per input descriptor and entry i holds descriptor i and the
\* outcome the closure of index i returned.
C2_IndexCorrespondence ==
    mainpc \in {"fold", "done"} =>
        /\ Len(results) = Len(files)
        /\ \A i \in 1..Len(files) :
             /\ results[i].file = files[i]
             /\ results[i].result = slots[i]

\* C2's case: two closures returned in the order opposite to their indices.
C2_Witness ==
    /\ mainpc = "done"
    /\ order = <<2, 1>>
    /\ Len(results) = 2
    /\ results[1].result.ok # results[2].result.ok

\* C3 (as claimed): no handler-level problem of one file ends the run; every
\* closure returns an outcome and main goes on to the statistics.
C3_ErrorsCaptured ==
    /\ mainpc # "panicked"
    /\ \A i \in Tasks : taskpc[i] # "panicked"

\* C4 (statistics): after the fold, files_processed counts the Ok outcomes,
\* files_failed the Err outcomes, metadata_items_removed sums the lengths of
\* the Ok outcomes' item lists, by_type counts the descriptors per category (a
\* category without descriptor has no key); both pairs of counters add up to
\* the number of inputs, and folding the same results again gives the same.
C4_Stats ==
    mainpc = "done" =>
        LET okIdx == { i \in 1..Len(results) : results[i].result.ok }
            errIdx == { i \in 1..Len(results) : ~results[i].result.ok }
            ofType(c) == { i \in 1..Len(files) : files[i].file_type = c }
            keyOf == [c \in {"Image", "Video", "PDF", "Unknown"} |->
                        CASE c = "Image" -> "Images" [] c = "Video" -> "Videos"
                          [] c = "PDF" -> "PDFs" [] c = "Unknown" -> "Unknown"]
        IN
        /\ stats.files_processed = Cardinality(okIdx)
        /\ stats.files_failed = Cardinality(errIdx)
        /\ stats.metadata_items_removed =
              Cardinality(UNION { { <<i, k>> : k \in 1..Len(results[i].result.items) } :
                                  i \in okIdx })
        /\ \A c \in DOMAIN keyOf :
             IF ofType(c) = {} THEN keyOf[c] \notin DOMAIN stats.by_type
             ELSE /\ keyOf[c] \in DOMAIN stats.by_type
                  /\ stats.by_type[keyOf[c]] = Cardinality(ofType(c))
        /\ DOMAIN stats.by_type \subseteq { keyOf[c] : c \in DOMAIN keyOf }
        /\ stats.files_processed + stats.files_failed = Len(files)
        /\ Cardinality(UNION { { <<key, k>> : k \in 1..stats.by_type[key] } :
                                key \in DOMAIN stats.by_type }) = Len(files)
        /\ FoldStats(EmptyStats, results) = stats

\* C4's case: a run with a success and a failure, of two categories, whose
\* success removed several items.
C4_Witness ==
    /\ mainpc = "done"
    /\ stats.files_processed = 1
    /\ stats.files_failed = 1
    /\ stats.metadata_items_removed = 5
    /\ DOMAIN stats.by_type = {"Images", "Videos"}

\* C5 (classifier): the result is Image, Video or PDF exactly when the path has
\* an extension that is one of the listed ones written in any letter case, and
\* Unknown for any other extension and for no extension.
C5_Classifier ==
    cOut # None =>
        LET e == extension(cIn)
            isIn(S) == e # None /\ \E x \in S : SameLetters(e, x)
        IN
        /\ cOut \in {"Image", "Video", "PDF", "Unknown"}
        /\ cOut = "Image" <=> isIn(ImageExts)
        /\ cOut = "Video" <=> isIn(VideoExts)
        /\ cOut = "PDF" <=> isIn(PdfExts)
        /\ cOut = "Unknown" <=> ~isIn(ImageExts \cup VideoExts \cup PdfExts)
        /\ cOut = determine_file_type(cIn)

\* C5's case: an extension in mixed case has been classified.
C5_Witness ==
    /\ cOut = "Image"
    /\ extension(cIn) = <<"J", "p", "g">>

\* C6 (dry run): in a dry run nothing on disk changes, whatever the other
\* flags: no directory is made, no file is written, copied or renamed, no
\* handler is entered, and every outcome is the simulated success.
C6_DryRun ==
    args.dry_run =>
        /\ fs = InitFs
        /\ dirs = InitDirs
        /\ log = {}
        /\ \A i \in Tasks : taskpc[i] \in {"idle", "done"}
        /\ \A i \in DOMAIN slots : slots[i] = Ok(DryRunItems)
        /\ \A k \in 1..Len(results) : results[k].result = Ok(DryRunItems)

\* C6's case: a quiet dry run with --backup and a missing output directory has
\* ended with an outcome for each of two files.
C6_Witness ==
    /\ args.dry_run /\ args.quiet /\ args.backup /\ ~args.overwrite
    /\ args.output_dir = "out"
    /\ mainpc = "done"
    /\ Len(results) = 2

\* C7 (as claimed): without --overwrite the output path differs from the input
\* path, and no handler creates, writes or renames onto the input file.
C7_NewFile ==
    ~args.overwrite =>
        /\ \A i \in DOMAIN outPath : outPath[i] # files[i].path
        /\ \A e \in log :
             e.op \in {"create", "write", "rename"} => e.path # files[e.task].path

\* C8 (as claimed): every handler changes its destination only by renaming a
\* complete temporary file onto it, so the destination never holds an
\* incomplete file.
C8_RenameOnly ==
    /\ \A e \in log :
         (e.op # "mkdir" /\ e.op # "backup" /\ e.path = outPath[e.task]) => e.op = "rename"
    /\ \A i \in DOMAIN outPath :
         outPath[i] \in DOMAIN fs => fs[outPath[i]].kind # "partial"

\* C9 (as claimed): when ffmpeg exits with a non-zero status the video handler
\* returns the ffmpeg error, has renamed nothing, and at the end of the run its
\* destination is as it was and its temporary file is not on disk.
C9_FailedTranscode ==
    \A i \in DOMAIN slots :
        (files[i].file_type = "Video" /\ slots[i] = Err("ffmpeg failed")) =>
            /\ Event(i, "rename", outPath[i]) \notin log
            /\ mainpc = "done" =>
                 /\ TempPath(outPath[i]) \notin DOMAIN fs
                 /\ outPath[i] \in DOMAIN fs <=> outPath[i] \in DOMAIN InitFs
                 /\ outPath[i] \in DOMAIN InitFs => fs[outPath[i]] = InitFs[outPath[i]]

\* C10 (missing tool): while ffmpeg is missing, a video file's handler stops at
\* the availability check: it never probes, transcodes or renames, it returns
\* the tool-unavailable error, and it changes nothing on disk (the only change
\* the closure may have made is main's backup copy, before the call).
C10_ToolUnavailable ==
    \A i \in Tasks :
        (files[i].file_type = "Video" /\ ~ffmpegInstalled /\ ~args.dry_run) =>
            /\ taskpc[i] \in {"idle", "vid_check", "done"}
            /\ i \in DOMAIN slots => slots[i] = Err(ToolUnavailable)
            /\ \A e \in log : e.task = i => e.op = "backup"
            /\ \A e \in log : e.task = i => e.path \notin {outPath[i], TempPath(outPath[i])}

\* C10's case: a video's handler has returned while ffmpeg is missing, in a
\* run with a backup copy, and a sibling's handler has written its output.
C10_Witness ==
    /\ ~ffmpegInstalled /\ ~args.dry_run /\ args.backup
    /\ mainpc = "done"
    /\ \E i \in Tasks : files[i].file_type = "Video" /\ slots[i] = Err(ToolUnavailable)
    /\ \E e \in log : e.op = "write"

\* C11 (as claimed): when ffmpeg or ffprobe is absent every video file's
\* outcome is an Err, and the files of the other categories get the outcome
\* their own handling gives.
C11_EitherToolAbsent ==
    (~args.dry_run /\ (~ffmpegInstalled \/ ~ffprobeInstalled)) =>
        \A i \in DOMAIN slots :
            IF files[i].file_type = "Video" THEN ~slots[i].ok
            ELSE i \notin faulted => (slots[i].ok <=> SucceedsAlone(files[i]))

\* C12 (as claimed): after a successful PDF strip the output file holds the
\* bytes the input file held before the call, whether the output path is the
\* input path (--overwrite, or neither flag) or lies in the output directory.
C12_PdfByteIdentical ==
    \A i \in DOMAIN slots :
        (files[i].file_type = "PDF" /\ slots[i].ok /\ ~args.dry_run) =>
            /\ outPath[i] \in DOMAIN fs
            /\ fs[outPath[i]] = InitFs[files[i].path]

\* C17 (as claimed): a file the classifier takes for an image is never
\* rejected by the image handler for its extension.
C17_FormatsAgree ==
    \A i \in DOMAIN slots :
        files[i].file_type = "Image" => slots[i] # Err("Unsupported image format")

\* The paths the closure of index i creates, writes or renames.
WrittenPaths(i) ==
    {outPath[i]}
    \cup (IF files[i].file_type = "Video" THEN {TempPath(outPath[i])} ELSE {})
    \cup (IF ShouldBackup(args) THEN {BackupPath(files[i].path)} ELSE {})

\* C18 (as claimed): the closures of two different files never create, write or
\* rename the same path: output, temporary and backup paths are pairwise
\* distinct.
C18_DisjointPaths ==
    ~args.dry_run =>
        \A i, j \in DOMAIN outPath :
            i # j => WrittenPaths(i) \cap WrittenPaths(j) = {}

\* The probe of the call fails, or gives no item.
ProbeGivesNothing(probe) ==
    \/ ~probe.spawned
    \/ ~probe.exit0
    \/ ~probe.parsed
    \/ /\ FormatItems(probe.json) = <<>>
       /\ "streams" \in DOMAIN probe.json => AllStreamItems(probe.json["streams"]) = <<>>

\* C13 (as claimed): when the probe fails or gives no item, and ffmpeg and the
\* rename succeed, the video handler returns Ok with exactly the five fallback
\* items.
C13_VideoFallback ==
    (/\ rIn.handler = "video" /\ rOut # NoResult
     /\ rIn.ffmpeg /\ rIn.transcoded /\ rIn.renamed
     /\ ProbeGivesNothing(rIn.probe))
    => rOut = Ok(VideoFallbackItems)

\* How many items of the report are in the set S.
CountIn(items, S) == Cardinality({ k \in 1..Len(items) : items[k] \in S })

\* C14 (as claimed): the report of a video has at most one "Video Codec" item
\* and at most one "Audio Codec" item, whatever the number of streams.
C14_FirstStreamsOnly ==
    (rIn.handler = "video" /\ rOut # NoResult /\ rOut.ok) =>
        /\ CountIn(rOut.items, { "Video Codec: " \o n : n \in CodecNames }) <= 1
        /\ CountIn(rOut.items, { "Audio Codec: " \o n : n \in CodecNames }) <= 1

\* The tags that give an item of the image report.
ReportedExifTags ==
    {"Make", "Model", "Software", "DateTime", "DateTimeOriginal", "GPSLatitude",
     "GPSLongitude", "ExposureTime", "FNumber", "ISOSpeed"}

Least(S) == CHOOSE x \in S : \A y \in S : x <= y

\* The value the content gives a key, by the two rules: from the key's first
\* occurrence, after the white space, a parenthesis opens a value that ends
\* where the parentheses balance, and anything else that does not begin with
\* '/' opens a value that ends before the next '/'; the value is trimmed.
ValueOf(content, key) ==
    LET n == Len(content)
        occurs == { k \in 1..n : content[k] = key }
        p == Least(occurs)
        nonSpace == { k \in (p + 1)..n : content[k] # " " }
        q == Least(nonSpace)
        balance(j) == Cardinality({ k \in q..j : content[k] = "(" })
                      - Cardinality({ k \in q..j : content[k] = ")" })
        closes == { j \in (q + 1)..n : content[j] = ")" /\ balance(j) = 0 }
        slashes == { j \in (q + 1)..n : IsSlash(content[j]) }
        first == IF content[q] = "(" THEN q + 1 ELSE q
        last == IF content[q] = "("
                THEN (IF closes = {} THEN n ELSE Least(closes) - 1)
                ELSE (IF slashes = {} THEN n ELSE Least(slashes) - 1)
        inner == { k \in first..last : content[k] # " " }
    IN
    IF occurs = {} \/ nonSpace = {} THEN <<>>
    ELSE IF IsSlash(content[q]) \/ inner = {} THEN <<>>
    ELSE SubSeq(content, Least(inner), CHOOSE k \in inner : \A j \in inner : j <= k)

\* C16 (PDF report): for a readable input of any content whose copy succeeds,
\* the PDF handler returns Ok with a non-empty report: one "<DisplayName>:
\* <value>" item for each of the eight keys that has a non-empty value, in the
\* order of the keys, or, when no key has one, exactly the eight placeholders;
\* a report with an item of the first form holds no placeholder.
C16_PdfReport ==
    (rIn.handler = "pdf" /\ rOut # NoResult /\ rIn.readable /\ rIn.copied) =>
        LET found == SelectSeq(PdfKeys, LAMBDA key : ValueOf(rIn.content, key[1]) # <<>>) IN
        /\ rOut.ok
        /\ Len(rOut.items) >= 1
        /\ IF found = <<>> THEN rOut.items = PdfFallbackItems
           ELSE /\ Len(rOut.items) = Len(found)
                /\ \A k \in 1..Len(found) :
                     /\ rOut.items[k] =
                           found[k][2] \o ": "
                           \o Text(replace(ValueOf(rIn.content, found[k][1])))
                     /\ \A n \in 1..Len(PdfFallbackItems) :
                          rOut.items[k] # PdfFallbackItems[n]

\* C16's case: a content with an author without a value and a title has been
\* stripped; the report is the title alone.
C16_Witness ==
    /\ rIn.handler = "pdf"
    /\ rIn.content = <<"/Author", "/Title", "(", "x">>
    /\ rOut = Ok(<<"Title: x">>)

====
